---- MODULE Spec2Model ----
(***************************************************************************)
(* Model of pi-backend/main.py: the sprinkler GPIO backend.                *)
(*                                                                         *)
(* The server runs on one asyncio event loop.  The request handlers        *)
(* turn_pin_on, turn_pin_off and emergency_stop contain no await, so each  *)
(* of them is one atomic step.  An auto_off_timer task has one suspension  *)
(* point (the await of asyncio.sleep); the event loop runs it in steps.    *)
(* The model keeps the three pieces of state of an asyncio task that       *)
(* decide the cancel/fire race: the future the task waits on, the          *)
(* must_cancel flag, and the task's own state.                             *)
(***************************************************************************)
EXTENDS Integers, Sequences, FiniteSets, TLC

VARIABLES
    SPRINKLER_API_TOKEN, \* the configured token, "" when not configured
    has_pi,              \* gpio.pi is set (pigpio is installed and pigpio.pi() returned)
    connected,           \* gpio.connected
    pin_states,          \* dict pin -> 'on' / 'off'
    active_timers,       \* dict pin -> task (an index into tasks)
    tasks,               \* every auto_off_timer task created so far
    last                 \* the step that led to this state, with its response

vars == <<SPRINKLER_API_TOKEN, has_pi, connected, pin_states, active_timers,
          tasks, last>>

----------------------------------------------------------------------------
(* Configuration *)

GPIO_PINS == <<12, 16, 20, 21, 26, 19, 13, 6, 5, 11, 9, 10, 22, 27, 17, 4>>

DENIED_PINS == <<2, 3, 14, 15, 18>>

\* membership in a Python list
InList(x, list) == \E i \in 1..Len(list) : list[i] = x

\* number of auto_off_timer tasks the model lets the program create
MaxTasks == 2

\* the pins that requests name: two pins of GPIO_PINS and one of DENIED_PINS
RequestPins == {12, 16, 2}

\* request.duration: absent from the body (the field default applies), or
\* an integer
NoBody == [given |-> FALSE, value |-> 0]
IntDuration(n) == [given |-> TRUE, value |-> n]
RequestDurations == {NoBody} \cup {IntDuration(n) : n \in {-1, 0, 15}}

\* the Authorization header: missing, or a bearer token
NoAuthorization == "<missing>"
Authorizations == {NoAuthorization, "s3cret", "wrong"}

\* the headers that requests carry; with no token configured
\* verify_auth_token returns before it reads the header, and one stands for all
RequestAuthorizations ==
    IF SPRINKLER_API_TOKEN = "" THEN {NoAuthorization} ELSE Authorizations

----------------------------------------------------------------------------
(* verify_auth_token *)

\* faulty variant: every request is let through
verify_auth_token_Open(authorization) == TRUE

verify_auth_token(authorization) ==
    IF SPRINKLER_API_TOKEN = "" THEN TRUE
    ELSE IF authorization = NoAuthorization THEN FALSE
    ELSE authorization = SPRINKLER_API_TOKEN

----------------------------------------------------------------------------
(* PinControlRequest *)

\* the value of request.duration after pydantic applied Field(10, ...)
PinControlRequest(request) ==
    IF ~request.given THEN 10 ELSE request.value

----------------------------------------------------------------------------
(* GPIOController *)

\* the outcomes of self.pi.write: it can raise only when the daemon is used
WriteOutcomes == IF has_pi /\ connected THEN BOOLEAN ELSE {TRUE}

\* set_pin's return value, write_ok telling whether self.pi.write returned
set_pin_result(write_ok) ==
    IF has_pi /\ connected THEN write_ok ELSE TRUE

\* faulty variant: the state is recorded whether or not the write succeeded
set_pin_Optimistic(ps, pin, state, write_ok) ==
    [q \in DOMAIN ps \cup {pin} |->
        IF q = pin THEN (IF state THEN "on" ELSE "off") ELSE ps[q]]

\* faulty variant: a successful write is recorded as 'on' whatever the level
set_pin_AlwaysOn(ps, pin, state, write_ok) ==
    IF (IF has_pi /\ connected THEN write_ok ELSE TRUE)
    THEN [q \in DOMAIN ps \cup {pin} |-> IF q = pin THEN "on" ELSE ps[q]]
    ELSE ps

\* pin_states after set_pin(pin, state); the handlers call it for pins of
\* GPIO_PINS only, so its ValueError is never raised
set_pin(ps, pin, state, write_ok) ==
    IF set_pin_result(write_ok)
    THEN [q \in DOMAIN ps \cup {pin} |->
            IF q = pin THEN (IF state THEN "on" ELSE "off") ELSE ps[q]]
    ELSE ps

get_pin_state_in(ps, pin) == IF pin \in DOMAIN ps THEN ps[pin] ELSE "off"

get_pin_state(pin) == get_pin_state_in(pin_states, pin)

\* pin_states after initialize
initialize(HAS_PIGPIO, daemon_up) ==
    IF HAS_PIGPIO /\ ~daemon_up
    THEN [q \in {} |-> "off"]
    ELSE [q \in {GPIO_PINS[i] : i \in 1..Len(GPIO_PINS)} |-> "off"]

----------------------------------------------------------------------------
(* asyncio tasks *)

\* a task: the coroutine's arguments, where the coroutine stands ("new":
\* not started, "sleeping": suspended in the sleep, "done": returned or
\* raised), the future of the sleep ("none", "pending", "done",
\* "cancelled"), the seconds left before the sleep's future completes, the
\* task's must_cancel flag and state, and two records of what happened:
\* cancel_requested (cancel() returned True on it) and turned_off (it ran
\* the set_pin(pin, False) of line 206).  A task that is done has given up
\* its coroutine: its duration_minutes, fut and remaining are reset
NewTask(pin, duration_minutes) ==
    [pin |-> pin, duration_minutes |-> duration_minutes, at |-> "new",
     fut |-> "none", remaining |-> 0, must_cancel |-> FALSE,
     state |-> "PENDING", cancel_requested |-> FALSE, turned_off |-> FALSE]

\* Task.done()
done(task) == task.state # "PENDING"

\* Task.cancelled()
cancelled(task) == task.state = "CANCELLED"

\* Task.cancel(): nothing on a finished task; cancels the future the task
\* waits on when that future is still pending; otherwise sets must_cancel
cancel(task) ==
    IF done(task) THEN task
    ELSE IF task.fut = "pending"
         THEN [task EXCEPT !.fut = "cancelled", !.remaining = 0,
                           !.cancel_requested = TRUE]
         ELSE [task EXCEPT !.must_cancel = TRUE, !.cancel_requested = TRUE]

\* a task that is pending and has no cancellation under way
Live(task) == ~done(task) /\ ~task.must_cancel /\ task.fut # "cancelled"

LiveTasks(pin) == {t \in 1..Len(tasks) : tasks[t].pin = pin /\ Live(tasks[t])}

----------------------------------------------------------------------------
(* the bookkeeping of the handlers *)

Remove(at, pin) == [q \in DOMAIN at \ {pin} |-> at[q]]

Put(at, pin, t) == [q \in DOMAIN at \cup {pin} |-> IF q = pin THEN t ELSE at[q]]

\* faulty variant: the entry is deleted without task.cancel()
CancelExisting_NoCancel(ts, at, pin) == ts

\* "Cancel any existing timer for this pin": the tasks afterwards
CancelExisting(ts, at, pin) ==
    IF pin \in DOMAIN at
    THEN [ts EXCEPT ![at[pin]] = cancel(ts[at[pin]])]
    ELSE ts

\* the response of a step and what it did, for the properties
Step(op, pin, status, request, duration, calls, stopped) ==
    [op |-> op, pin |-> pin, status |-> status, request |-> request,
     duration |-> duration, calls |-> calls, stopped |-> stopped]

Config == <<SPRINKLER_API_TOKEN, has_pi, connected>>

----------------------------------------------------------------------------
Init ==
    /\ SPRINKLER_API_TOKEN = ""
    /\ \E HAS_PIGPIO \in BOOLEAN, daemon_up \in BOOLEAN :
          /\ has_pi = HAS_PIGPIO
          /\ connected = (HAS_PIGPIO /\ daemon_up)
          /\ pin_states = initialize(HAS_PIGPIO, daemon_up)
    /\ active_timers = [q \in {} |-> 0]
    /\ tasks = <<>>
    /\ last = Step("init", 0, 0, NoBody, 0, {}, <<>>)

----------------------------------------------------------------------------
(* turn_pin_on *)

\* faulty variant: the 404 check is missing
NotAvailable_Never(pin) == FALSE

\* faulty variant: the 404 check lets the denied pins through to the 403 check
NotAvailable_DeniedFirst(pin) ==
    ~InList(pin, GPIO_PINS) /\ ~InList(pin, DENIED_PINS)

NotAvailable(pin) == ~InList(pin, GPIO_PINS)

Denied(pin) == InList(pin, DENIED_PINS)

\* faulty variant: the requested duration is ignored
EffectiveDuration_Default(request) == 10

\* faulty variant: the duration is capped at the default
EffectiveDuration_Capped(request) ==
    IF request.given /\ request.value > 0 /\ request.value < 10
    THEN request.value ELSE 10

\* "use provided duration or default 10 minutes"
EffectiveDuration(request) ==
    LET duration == PinControlRequest(request)
    IN  IF duration # 0 /\ duration > 0 THEN duration ELSE 10

Respond(op, pin, status) ==
    /\ last' = Step(op, pin, status, NoBody, 0, {}, <<>>)
    /\ UNCHANGED <<pin_states, active_timers, tasks>>

turn_pin_on(authorization, pin, request, write_ok) ==
    /\ Len(tasks) < MaxTasks
    /\ UNCHANGED Config
    /\ IF ~verify_auth_token(authorization) THEN Respond("on", pin, 401)
       ELSE IF NotAvailable(pin) THEN Respond("on", pin, 404)
       ELSE IF Denied(pin) THEN Respond("on", pin, 403)
       ELSE
         LET cancelled_tasks == CancelExisting(tasks, active_timers, pin)
             timers == Remove(active_timers, pin)
             success == set_pin_result(write_ok)
             duration == EffectiveDuration(request)
         IN  /\ pin_states' = set_pin(pin_states, pin, TRUE, write_ok)
             /\ IF ~success
                THEN /\ tasks' = cancelled_tasks
                     /\ active_timers' = timers
                     /\ last' = Step("on", pin, 500, NoBody, 0, {<<pin, TRUE>>}, <<>>)
                ELSE /\ tasks' = Append(cancelled_tasks, NewTask(pin, duration))
                     /\ active_timers' = Put(timers, pin, Len(tasks) + 1)
                     /\ last' = Step("on", pin, 200, request, duration,
                                     {<<pin, TRUE>>}, <<>>)

----------------------------------------------------------------------------
(* turn_pin_off *)

turn_pin_off(authorization, pin, write_ok) ==
    /\ UNCHANGED Config
    /\ IF ~verify_auth_token(authorization) THEN Respond("off", pin, 401)
       ELSE IF NotAvailable(pin) THEN Respond("off", pin, 404)
       ELSE
         /\ tasks' = CancelExisting(tasks, active_timers, pin)
         /\ active_timers' = Remove(active_timers, pin)
         /\ pin_states' = set_pin(pin_states, pin, FALSE, write_ok)
         /\ last' = Step("off", pin,
                         IF set_pin_result(write_ok) THEN 200 ELSE 500,
                         NoBody, 0, {<<pin, FALSE>>}, <<>>)

----------------------------------------------------------------------------
(* emergency_stop *)

\* the pins of the sweep: those whose state reads 'on', in list order
OnPins(ps) == SelectSeq(GPIO_PINS, LAMBDA pin : get_pin_state_in(ps, pin) = "on")

Range(seq) == {seq[i] : i \in 1..Len(seq)}

\* stopped_pins: the sweep appends every pin it calls set_pin for
stopped_pins(ps, failed) == OnPins(ps)

\* faulty variant: the sweep stops at the first pin whose write raises
Sweep_AbortOnFailure(ps, failed) ==
    [q \in DOMAIN ps |->
        IF /\ ps[q] = "on" /\ InList(q, GPIO_PINS) /\ set_pin_result(q \notin failed)
           /\ ~\E i, j \in 1..Len(GPIO_PINS) :
                  /\ i < j /\ GPIO_PINS[j] = q
                  /\ get_pin_state_in(ps, GPIO_PINS[i]) = "on"
                  /\ ~set_pin_result(GPIO_PINS[i] \notin failed)
        THEN "off" ELSE ps[q]]

\* pin_states after the sweep; failed is the set of pins whose write raises
Sweep(ps, failed) ==
    [q \in DOMAIN ps |->
        IF ps[q] = "on" /\ InList(q, GPIO_PINS) /\ set_pin_result(q \notin failed)
        THEN "off" ELSE ps[q]]

\* faulty variant: the map is cleared without task.cancel()
CancelAll_ClearOnly(ts, at) == ts

\* "Cancel all timers"
CancelAll(ts, at) ==
    [t \in 1..Len(ts) |->
        IF \E pin \in DOMAIN at : at[pin] = t THEN cancel(ts[t]) ELSE ts[t]]

emergency_stop(authorization, failed) ==
    /\ UNCHANGED Config
    /\ IF ~verify_auth_token(authorization) THEN Respond("estop", 0, 401)
       ELSE
         /\ tasks' = CancelAll(tasks, active_timers)
         /\ active_timers' = [q \in {} |-> 0]
         /\ pin_states' = Sweep(pin_states, failed)
         /\ last' = Step("estop", 0, 200, NoBody, 0,
                         {<<q, FALSE>> : q \in Range(OnPins(pin_states))},
                         stopped_pins(pin_states, failed))

----------------------------------------------------------------------------
(* auto_off_timer *)

\* the event loop runs the task's first step: the coroutine reaches
\* asyncio.sleep(duration_minutes * 60), unless cancel() came first, in
\* which case CancelledError is thrown into the coroutine before its try
timer_start(t) ==
    /\ t \in 1..Len(tasks)
    /\ tasks[t].at = "new"
    /\ tasks' = [tasks EXCEPT ![t] =
          IF tasks[t].must_cancel
          THEN [tasks[t] EXCEPT !.at = "done", !.must_cancel = FALSE,
                                !.duration_minutes = 0, !.state = "CANCELLED"]
          ELSE [tasks[t] EXCEPT !.at = "sleeping", !.fut = "pending",
                                !.remaining = tasks[t].duration_minutes * 60]]
    /\ last' = Step("timer_start", 0, 0, NoBody, 0, {}, <<>>)
    /\ UNCHANGED <<Config, pin_states, active_timers>>

\* ten minutes pass: the sleeps whose delay has elapsed complete their future
tick ==
    /\ \E t \in 1..Len(tasks) : tasks[t].fut = "pending"
    /\ tasks' = [t \in 1..Len(tasks) |->
          IF tasks[t].fut = "pending"
          THEN IF tasks[t].remaining - 600 <= 0
               THEN [tasks[t] EXCEPT !.remaining = 0, !.fut = "done"]
               ELSE [tasks[t] EXCEPT !.remaining = @ - 600]
          ELSE tasks[t]]
    /\ last' = Step("tick", 0, 0, NoBody, 0, {}, <<>>)
    /\ UNCHANGED <<Config, pin_states, active_timers>>

\* faulty variant: the except branch turns the pin off as well
on_cancelled_TurnsOff(ps, pin, write_ok) ==
    [pin_states |-> set_pin(ps, pin, FALSE, write_ok), turned_off |-> TRUE]

\* the except branch: the cancellation is logged, nothing else
on_cancelled(ps, pin, write_ok) == [pin_states |-> ps, turned_off |-> FALSE]

\* the task is woken out of the sleep with CancelledError
timer_cancelled(t, write_ok) ==
    /\ t \in 1..Len(tasks)
    /\ tasks[t].at = "sleeping"
    /\ tasks[t].fut = "cancelled" \/ (tasks[t].fut = "done" /\ tasks[t].must_cancel)
    /\ pin_states' = on_cancelled(pin_states, tasks[t].pin, write_ok).pin_states
    /\ tasks' = [tasks EXCEPT ![t] =
          [@ EXCEPT !.at = "done", !.fut = "none", !.must_cancel = FALSE,
                    !.remaining = 0, !.duration_minutes = 0, !.state = "FINISHED",
                    !.turned_off =
                        on_cancelled(pin_states, tasks[t].pin, write_ok).turned_off]]
    /\ last' = Step("timer_cancelled", tasks[t].pin, 0, NoBody, 0, {}, <<>>)
    /\ UNCHANGED <<Config, active_timers>>

\* faulty variant: the timer leaves its entry behind
Retire_Keep(at, pin, t) == at

\* the timer's own retirement: "Remove timer from active list"
Retire(at, pin, t) == IF pin \in DOMAIN at THEN Remove(at, pin) ELSE at

\* the task is woken out of the sleep normally: it turns the pin off and
\* removes the pin's entry of active_timers
timer_fire(t, write_ok) ==
    /\ t \in 1..Len(tasks)
    /\ tasks[t].at = "sleeping"
    /\ tasks[t].fut = "done" /\ ~tasks[t].must_cancel
    /\ pin_states' = set_pin(pin_states, tasks[t].pin, FALSE, write_ok)
    /\ active_timers' = Retire(active_timers, tasks[t].pin, t)
    /\ tasks' = [tasks EXCEPT ![t] =
          [@ EXCEPT !.at = "done", !.fut = "none", !.duration_minutes = 0,
                    !.state = "FINISHED", !.turned_off = TRUE]]
    /\ last' = Step("timer_fire", tasks[t].pin,
                    IF set_pin_result(write_ok) THEN 200 ELSE 500,
                    NoBody, 0, {<<tasks[t].pin, FALSE>>}, <<>>)
    /\ UNCHANGED Config

----------------------------------------------------------------------------
Next ==
    \/ \E authorization \in RequestAuthorizations, pin \in RequestPins,
          request \in RequestDurations, write_ok \in WriteOutcomes :
          turn_pin_on(authorization, pin, request, write_ok)
    \/ \E authorization \in RequestAuthorizations, pin \in RequestPins,
          write_ok \in WriteOutcomes :
          turn_pin_off(authorization, pin, write_ok)
    \/ \E authorization \in RequestAuthorizations,
          failed \in SUBSET Range(OnPins(pin_states)) :
          /\ (failed = {} \/ (has_pi /\ connected))
          /\ emergency_stop(authorization, failed)
    \/ \E t \in 1..MaxTasks : timer_start(t)
    \/ tick
    \/ \E t \in 1..MaxTasks, write_ok \in WriteOutcomes : timer_cancelled(t, write_ok)
    \/ \E t \in 1..MaxTasks, write_ok \in WriteOutcomes : timer_fire(t, write_ok)

Spec == Init /\ [][Next]_vars

\* The event loop runs the callbacks it has queued, and time passes: while
\* some task can take a step, some task takes one
Fairness ==
    /\ WF_vars(tick)
    /\ WF_vars(\E t \in 1..MaxTasks : timer_start(t))
    /\ WF_vars(\E t \in 1..MaxTasks, write_ok \in WriteOutcomes :
                  timer_cancelled(t, write_ok))
    /\ WF_vars(\E t \in 1..MaxTasks, write_ok \in WriteOutcomes :
                  timer_fire(t, write_ok))

FairSpec == Spec /\ Fairness

\* the server started with or without SPRINKLER_API_TOKEN in its environment
ConfiguredTokens == {"", "s3cret"}

AuthInit ==
    /\ SPRINKLER_API_TOKEN \in ConfiguredTokens
    /\ \E HAS_PIGPIO \in BOOLEAN, daemon_up \in BOOLEAN :
          /\ has_pi = HAS_PIGPIO
          /\ connected = (HAS_PIGPIO /\ daemon_up)
          /\ pin_states = initialize(HAS_PIGPIO, daemon_up)
    /\ active_timers = [q \in {} |-> 0]
    /\ tasks = <<>>
    /\ last = Step("init", 0, 0, NoBody, 0, {}, <<>>)

AuthSpec == AuthInit /\ [][Next]_vars

----------------------------------------------------------------------------
(* Properties *)

Tasks == 1..Len(tasks)

NoTimers == [q \in {} |-> 0]

\* GET /api/debug/timers
get_active_timers ==
    [pin \in DOMAIN active_timers |->
        [active |-> ~done(tasks[active_timers[pin]]),
         cancelled |-> cancelled(tasks[active_timers[pin]])]]

\* C1 as stated: when the timer of a pin fires, the pin's recorded state
\* becomes off and the pin has no entry in the timer map.
C1_FiredPinIsOff ==
    last.op = "timer_fire" =>
        /\ get_pin_state(last.pin) = "off"
        /\ last.pin \notin DOMAIN active_timers

C1_AfterFire ==
    last.op = "timer_fire" =>
        /\ last.pin \notin DOMAIN active_timers
        /\ last.pin \notin DOMAIN get_active_timers
        /\ last.status = 200 => get_pin_state(last.pin) = "off"
        /\ last.status = 500 => get_pin_state(last.pin) = "on"

\* C1, amended: a timer that is live ends by firing unless a call cancels it
\* first; when it fires, the pin has no entry in the timer map any more (the
\* debug snapshot shows none), and the pin's recorded state is off if the
\* driver accepted the set-pin-false call and is still on if it did not.
C1_AutoOff ==
    /\ []C1_AfterFire
    /\ \A t \in 1..MaxTasks :
          (t \in Tasks /\ Live(tasks[t]))
              ~> (t \in Tasks /\ (tasks[t].turned_off \/ tasks[t].cancel_requested))

C1_Witness ==
    /\ last.op = "timer_fire" /\ last.status = 200
    /\ get_pin_state(last.pin) = "off"
    /\ \E t \in Tasks : tasks[t].pin = last.pin /\ tasks[t].turned_off
                           /\ ~tasks[t].cancel_requested

\* C2: after a successful activation the pin has exactly one live schedule,
\* the one the timer map holds, and its duration is the requested one (D2);
\* every other task of the pin, the one of the first activation included, is
\* done or has its cancellation requested and has not turned the pin off.
C2_LastActivateWins ==
    (last.op = "on" /\ last.status = 200) =>
        /\ last.pin \in DOMAIN active_timers
        /\ LiveTasks(last.pin) = {active_timers[last.pin]}
        /\ tasks[active_timers[last.pin]].duration_minutes = last.duration
        /\ (last.request.given /\ last.request.value > 0)
              => last.duration = last.request.value
        /\ \A t \in Tasks \ {active_timers[last.pin]} :
              (tasks[t].pin = last.pin /\ ~done(tasks[t]))
                => (tasks[t].cancel_requested /\ ~tasks[t].turned_off)

C2_Witness ==
    /\ last.op = "on" /\ last.status = 200
    /\ last.request = IntDuration(15)
    /\ \E t \in Tasks :
          /\ tasks[t].pin = last.pin /\ t # active_timers[last.pin]
          /\ tasks[t].duration_minutes = 10 /\ tasks[t].fut = "done"
          /\ ~done(tasks[t]) /\ tasks[t].cancel_requested

\* C3: in every reachable state each pin has at most one live timer task,
\* whether or not the timer map refers to it.
C3_OneLiveTimerPerPin ==
    \A t1, t2 \in Tasks :
        (Live(tasks[t1]) /\ Live(tasks[t2]) /\ tasks[t1].pin = tasks[t2].pin)
            => t1 = t2

C3_Witness ==
    \E t1, t2 \in Tasks :
        /\ t1 # t2 /\ tasks[t1].pin = tasks[t2].pin
        /\ ~done(tasks[t1]) /\ ~Live(tasks[t1])
        /\ Live(tasks[t2]) /\ tasks[t2].fut = "done"

\* C4: no task both has its cancellation requested and runs its turn-off,
\* and a task that is done has exactly one of the two.
C4_CancelOrFire ==
    \A t \in Tasks :
        /\ ~(tasks[t].cancel_requested /\ tasks[t].turned_off)
        /\ done(tasks[t]) => (tasks[t].cancel_requested \/ tasks[t].turned_off)

\* the cancel came after the delay had elapsed and before the callback ran
C4_Witness ==
    \E t \in Tasks :
        /\ tasks[t].at = "sleeping" /\ tasks[t].fut = "done"
        /\ tasks[t].must_cancel /\ tasks[t].cancel_requested
        /\ ~tasks[t].turned_off

\* C5 as stated: a deactivate that is served right after the pin's timer
\* fired makes no second set-pin-false call.
C5_OneSetFalse ==
    [][(/\ last.op = "timer_fire" /\ last.status = 200
        /\ last'.op = "off" /\ last'.pin = last.pin /\ last'.status = 200)
          => last'.calls = {}]_vars

\* C6 as stated: the pins emergency_stop returns are the pins that were on
\* and that the driver turned off.
C6_StoppedAreOff ==
    (last.op = "estop" /\ last.status = 200) =>
        /\ \A pin \in Range(last.stopped) : get_pin_state(pin) = "off"
        /\ \A pin \in Range(GPIO_PINS) :
              get_pin_state(pin) = "on" => pin \notin Range(last.stopped)

\* C7: after emergency_stop the timer map is empty and no timer task is live.
C7_NoScheduleAfterStop ==
    (last.op = "estop" /\ last.status = 200) =>
        /\ active_timers = NoTimers
        /\ \A t \in Tasks : ~Live(tasks[t])

C7_Witness ==
    /\ last.op = "estop" /\ last.status = 200
    /\ \E pin \in Range(last.stopped) : get_pin_state(pin) = "on"
    /\ \E t \in Tasks : ~done(tasks[t]) /\ tasks[t].cancel_requested
                           /\ tasks[t].fut = "done"
    /\ \E t \in Tasks : ~done(tasks[t]) /\ tasks[t].cancel_requested
                           /\ tasks[t].fut = "cancelled"

\* C8 as stated: an activate that fails on the driver leaves the pin states
\* and the schedules as they were.
C8_FailedActivateChangesNothing ==
    [][(last'.op = "on" /\ last'.status = 500)
          => (pin_states' = pin_states /\ active_timers' = active_timers
              /\ tasks' = tasks)]_vars

\* C9: activate and deactivate of a pin outside GPIO_PINS answer 404, call
\* the driver for nothing and leave the pin states and the schedules alone.
C9_UnknownPinNotFound ==
    [][(last'.op \in {"on", "off"} /\ ~InList(last'.pin, GPIO_PINS))
          => (/\ last'.status = 404
              /\ last'.calls = {}
              /\ pin_states' = pin_states
              /\ active_timers' = active_timers
              /\ tasks' = tasks)]_vars

C9_Witness ==
    /\ last.op = "off" /\ ~InList(last.pin, GPIO_PINS) /\ last.status = 404
    /\ \E pin \in DOMAIN active_timers : Live(tasks[active_timers[pin]])
    /\ \E pin \in Range(GPIO_PINS) : get_pin_state(pin) = "on"

\* C10 as stated: activate of a denied pin answers 403, deactivate of it
\* succeeds.
C10_DeniedForbidden ==
    (last.op \in {"on", "off"} /\ InList(last.pin, DENIED_PINS)) =>
        last.status = (IF last.op = "on" THEN 403 ELSE 200)

\* C10, amended: no denied pin is ever on; activate of a denied pin fails,
\* with 403 if the pin is in GPIO_PINS and with 404 otherwise, and deactivate
\* of a denied pin fails with 404 unless the pin is in GPIO_PINS.  No pin of
\* DENIED_PINS is in GPIO_PINS, so both answer 404.
C10_DeniedNeverOn ==
    /\ \A i \in 1..Len(DENIED_PINS) : get_pin_state(DENIED_PINS[i]) = "off"
    /\ \A i \in 1..Len(DENIED_PINS) : ~InList(DENIED_PINS[i], GPIO_PINS)
    /\ (last.op \in {"on", "off"} /\ InList(last.pin, DENIED_PINS)) =>
          /\ last.status = 404
          /\ last.calls = {}

C10_Witness ==
    /\ last.op = "on" /\ InList(last.pin, DENIED_PINS) /\ last.status = 404
    /\ \E pin \in Range(GPIO_PINS) : get_pin_state(pin) = "on"

\* C11: a deactivate that fails on the driver answers 500 and leaves the
\* recorded pin states as they were; a pin that was on is still on.
C11_FailedDeactivateKeepsState ==
    [][(last'.op = "off" /\ last'.status = 500)
          => (/\ pin_states' = pin_states
              /\ last'.calls = {<<last'.pin, FALSE>>})]_vars

C11_Witness ==
    /\ last.op = "off" /\ last.status = 500
    /\ get_pin_state(last.pin) = "on"

\* C12: right after a successful activate the pin reads on; right after a
\* successful deactivate the pin reads off, has no entry in the timer map
\* and has no live timer task.
C12_RoundTrip ==
    /\ (last.op = "on" /\ last.status = 200) =>
          (get_pin_state(last.pin) = "on" /\ InList(last.pin, GPIO_PINS)
           /\ ~InList(last.pin, DENIED_PINS))
    /\ (last.op = "off" /\ last.status = 200) =>
          /\ get_pin_state(last.pin) = "off"
          /\ last.pin \notin DOMAIN active_timers
          /\ LiveTasks(last.pin) = {}

\* the deactivate follows an activate of the pin with an explicit duration
C12_Witness ==
    /\ last.op = "off" /\ last.status = 200
    /\ get_pin_state(last.pin) = "off"
    /\ \E t \in Tasks : /\ tasks[t].pin = last.pin
                           /\ tasks[t].duration_minutes = 15
                           /\ tasks[t].cancel_requested /\ ~done(tasks[t])

\* C13: the schedule a successful activate installs, and the duration the
\* response reports, is the requested duration when it is a positive
\* integer, however large, and 10 when it is absent, zero or negative.
C13_Duration ==
    (last.op = "on" /\ last.status = 200) =>
        LET expected == IF last.request.given /\ last.request.value >= 1
                        THEN last.request.value ELSE 10
        IN  /\ last.duration = expected
            /\ last.pin \in DOMAIN active_timers
            /\ tasks[active_timers[last.pin]].duration_minutes = expected

\* a duration above the default is used as given
C13_Witness ==
    /\ last.op = "on" /\ last.status = 200
    /\ last.request = IntDuration(15)
    /\ last.duration = 15
    /\ tasks[active_timers[last.pin]].duration_minutes = 15
    /\ \E t \in Tasks : tasks[t].duration_minutes = 10

\* a request handled in this step with the header authorization; the step
\* records the endpoint and the pin in last
Requested(authorization) ==
    \/ /\ last'.op = "on"
       /\ \E request \in RequestDurations, write_ok \in WriteOutcomes :
             turn_pin_on(authorization, last'.pin, request, write_ok)
    \/ /\ last'.op = "off"
       /\ \E write_ok \in WriteOutcomes :
             turn_pin_off(authorization, last'.pin, write_ok)
    \/ /\ last'.op = "estop"
       /\ \E failed \in SUBSET Range(OnPins(pin_states)) :
             emergency_stop(authorization, failed)

\* C14: with a token configured, an activate, deactivate or emergency-stop
\* request without a token or with another token answers 401 and changes no
\* pin state and no schedule; a 401 is answered to such requests only, so
\* with no token configured no request is turned away.
C14_Unauthorized ==
    [][/\ \A authorization \in Authorizations :
            (/\ SPRINKLER_API_TOKEN # ""
             /\ authorization # SPRINKLER_API_TOKEN
             /\ Requested(authorization))
               => (/\ last'.status = 401
                   /\ pin_states' = pin_states
                   /\ active_timers' = active_timers
                   /\ tasks' = tasks)
       /\ last'.status = 401 =>
            (/\ SPRINKLER_API_TOKEN # ""
             /\ ~Requested(SPRINKLER_API_TOKEN)
             /\ pin_states' = pin_states
             /\ active_timers' = active_timers
             /\ tasks' = tasks)]_vars

C14_Witness ==
    /\ last.op = "estop" /\ last.status = 401
    /\ SPRINKLER_API_TOKEN = "s3cret"
    /\ \E pin \in DOMAIN active_timers : Live(tasks[active_timers[pin]])
    /\ \E pin \in Range(GPIO_PINS) : get_pin_state(pin) = "on"

\* C15: an authorised emergency stop answers success whatever the driver
\* does: it calls set_pin(pin, False) for every pin of GPIO_PINS whose state
\* reads 'on', a write that raises for one pin does not stop the sweep, and
\* every pin whose write returned reads 'off' afterwards
C15_SweepIsTotal ==
    [][\A failed \in SUBSET Range(OnPins(pin_states)) :
          (/\ last'.op = "estop" /\ last'.status # 401
           /\ emergency_stop(SPRINKLER_API_TOKEN, failed))
            => (/\ last'.status = 200
                /\ last'.calls = {<<q, FALSE>> : q \in
                       {r \in Range(GPIO_PINS) : get_pin_state(r) = "on"}}
                /\ \A q \in Range(GPIO_PINS) :
                      (get_pin_state(q) = "on" /\ q \notin failed)
                         => get_pin_state_in(pin_states', q) = "off")]_vars

\* an emergency stop has swept two pins: the write raised for the earlier
\* one, and the later one was turned off all the same
C15_Witness ==
    /\ last.op = "estop" /\ last.status = 200
    /\ \E i, j \in 1..Len(last.stopped) :
          /\ i < j
          /\ get_pin_state(last.stopped[i]) = "on"
          /\ get_pin_state(last.stopped[j]) = "off"

\* C16: when a timer fires and the driver's write raises, the timer's task
\* still ends normally (no exception leaves the coroutine), the pin's entry
\* is removed from active_timers, and pin_states is left as it was, the pin
\* still reading 'on'
C16_FailedFireIsSuppressed ==
    [][\A t \in 1..MaxTasks :
          (timer_fire(t, FALSE) /\ ~set_pin_result(FALSE))
            => (/\ last'.status = 500
                /\ tasks'[t].state = "FINISHED" /\ ~cancelled(tasks'[t])
                /\ tasks[t].pin \notin DOMAIN active_timers'
                /\ pin_states' = pin_states
                /\ get_pin_state_in(pin_states', tasks[t].pin) = "on")]_vars

\* a timer fired, the write raised: its task is finished, the pin is on
\* and nothing is scheduled for it
C16_Witness ==
    /\ last.op = "timer_fire" /\ last.status = 500
    /\ get_pin_state(last.pin) = "on"
    /\ LiveTasks(last.pin) = {}
    /\ \E t \in Tasks : /\ tasks[t].pin = last.pin /\ tasks[t].turned_off
                         /\ tasks[t].state = "FINISHED"

\* C17: a timer that fires is the one active_timers holds for its pin: the
\* entry it deletes is its own, never the entry of a schedule a later
\* activation installed for the pin, and the entries of the other pins are
\* left as they are
C17_FiresOwnEntry ==
    [][\A t \in 1..MaxTasks, write_ok \in WriteOutcomes :
          timer_fire(t, write_ok)
            => (/\ tasks[t].pin \in DOMAIN active_timers
                /\ active_timers[tasks[t].pin] = t
                /\ active_timers' = Remove(active_timers, tasks[t].pin))]_vars

\* the pin was activated twice: the timer of the second activation fired,
\* the timer of the first one was cancelled and never turned the pin off
C17_Witness ==
    /\ last.op = "timer_fire"
    /\ \E t1, t2 \in Tasks :
          /\ t1 < t2
          /\ tasks[t1].pin = last.pin /\ tasks[t2].pin = last.pin
          /\ tasks[t1].cancel_requested /\ ~tasks[t1].turned_off
          /\ tasks[t2].turned_off /\ ~tasks[t2].cancel_requested

\* C18 as stated: after initialize, in every mode, pin_states has an entry
\* 'off' for every pin of GPIO_PINS, and in every state pin_states has no
\* key outside GPIO_PINS
C18_EveryPinHasEntry ==
    /\ last.op = "init" =>
          \A pin \in Range(GPIO_PINS) :
              pin \in DOMAIN pin_states /\ pin_states[pin] = "off"
    /\ DOMAIN pin_states \subseteq Range(GPIO_PINS)

\* C19 as stated: in every state, every pin whose state reads 'on' has a
\* live auto-off timer
C19_OnPinsAreScheduled ==
    \A pin \in Range(GPIO_PINS) :
        get_pin_state(pin) = "on" => LiveTasks(pin) # {}

\* C20: every entry of active_timers is a task that is neither finished nor
\* cancelled, created for the pin it is filed under, a pin of GPIO_PINS that
\* is not denied and whose state reads 'on'; no live timer exists for a pin
\* that reads 'off'; the debug snapshot shows active true and cancelled
\* false for every entry
C20_EntriesArePending ==
    /\ \A pin \in DOMAIN active_timers :
          /\ active_timers[pin] \in Tasks
          /\ tasks[active_timers[pin]].pin = pin
          /\ ~done(tasks[active_timers[pin]])
          /\ ~cancelled(tasks[active_timers[pin]])
          /\ Live(tasks[active_timers[pin]])
          /\ InList(pin, GPIO_PINS) /\ ~InList(pin, DENIED_PINS)
          /\ get_pin_state(pin) = "on"
    /\ \A t \in Tasks :
          Live(tasks[t]) => get_pin_state(tasks[t].pin) = "on"
    /\ \A pin \in DOMAIN get_active_timers :
          get_active_timers[pin].active /\ ~get_active_timers[pin].cancelled

\* a pin has an entry while an earlier timer of the same pin has finished,
\* cancelled by the re-activation that installed the entry
C20_Witness ==
    \E pin \in DOMAIN active_timers, t \in Tasks :
        /\ t # active_timers[pin]
        /\ tasks[t].pin = pin
        /\ done(tasks[t]) /\ tasks[t].cancel_requested
        /\ get_active_timers[pin].active
        /\ ~get_active_timers[pin].cancelled

====
